---- MODULE Spec2Model ----
(***************************************************************************)
(* Model of pact.base.PactBase: a polled completion object with three      *)
(* callback registries (then / during / on_timeout), a default timeout and *)
(* an overridable timeout-translation hook.                                *)
(*                                                                         *)
(* One gate is modelled.  A callback registry is a sequence of callback    *)
(* names.  How a callback behaves when it is called (it returns, raises an *)
(* ordinary Exception, raises waiting.TimeoutExpired, or raises a          *)
(* BaseException that is no Exception, such as KeyboardInterrupt), what    *)
(* the predicate _is_finished() answers and what get_timeout_exception     *)
(* does (it returns None, an exception or a value that cannot be raised,   *)
(* or raises itself) are inputs of the call that invokes them.  then(),    *)
(* during() and on_timeout() are given a callable or something that is     *)
(* not callable, which their assertion refuses.  An exception is the       *)
(* triple <<where, index, kind>> naming the place that raised it, so that  *)
(* two exceptions of one kind raised by different callbacks stay distinct. *)
(*                                                                         *)
(* poll() is reached through poll() itself, through the deprecated         *)
(* finished() and through the loop of waiting.wait that wait() starts;     *)
(* the keyword arguments of wait() go to that loop, which catches the      *)
(* exceptions of poll() named in expected_exceptions and calls on_poll     *)
(* after every poll(); a call of waiting.wait with a keyword it does not   *)
(* take, or with waiting_for, which wait() passes itself, raises TypeError *)
(* before anything is polled.                                              *)
(*                                                                         *)
(* Spec has callbacks that do not call back into the gate.  In             *)
(* ReentrantSpec a during-callback may call poll() once while it runs; the *)
(* callbacks and the predicate behave in that call in every way they do in *)
(* an outer one, and the during-callback goes on to return or to raise.    *)
(* LiveSpec is the gate under the fairness of the wait loop, CoopSpec the  *)
(* gate shared by cooperative tasks.                                       *)
(***************************************************************************)
EXTENDS Integers, Sequences, FiniteSets, TLC

(* ---------------------------------------------------------------- bounds *)
\* callbacks registered on one gate, over the three registries
MaxRegistrations == 3
\* ReentrantSpec: callbacks registered on a gate whose during-callbacks
\* call back into it
MaxReentrantRegistrations == 2
\* the counters of callback invocations stop counting here
CountCap == 2
\* a timeout that is neither None nor 0
PositiveTimeout == 10
\* LiveSpec: the predicate turns true after at most this many evaluations
MaxPollsUntilTrue == 3

(* ------------------------------------------------------------- constants *)
\* Python's None as a timeout (the timeouts of the model are >= 0)
None == -1

Callbacks == {"f"}
\* an argument of then(), during() or on_timeout() that is not callable
NotCallables == {"5"}
CallbackArgs == Callbacks \cup NotCallables
Outcomes == {"ok", "Exception", "TimeoutExpired", "KeyboardInterrupt"}
PredOutcomes == {"True", "False", "Exception", "TimeoutExpired",
                 "KeyboardInterrupt"}
\* what get_timeout_exception does: it returns None, an exception or
\* something that is no exception, or it raises
HookReturns == {"None", "Translated", "NotAnException", "Exception",
                "TimeoutExpired", "KeyboardInterrupt"}
TimeoutValues == {None, 0, PositiveTimeout}
\* the kinds of exception a callback or the predicate raises
ExcKinds == {"Exception", "TimeoutExpired", "KeyboardInterrupt"}
\* the sleep between two polls that wait() is given: none or a number
SleepValues == {"unset", "0.5"}
\* **kwargs of wait(), forwarded to waiting.wait.  expected_exceptions, the
\* classes of the exceptions of poll() it is to catch, is given by the
\* kinds that are instances of one of them: {} is (), {"Exception",
\* "TimeoutExpired"} is (Exception,), all three are (BaseException,).
\* on_poll says whether an on_poll callable is given, sleep_seconds is the
\* sleep between two polls.  other is a further keyword: none,
\* waiting_for, which wait() passes itself, or one that waiting.wait does
\* not know.
KwargsValues == [expected_exceptions : SUBSET ExcKinds,
                 on_poll : BOOLEAN,
                 sleep_seconds : SleepValues,
                 other : {"none", "waiting_for", "unknown"}]
\* What the loop of waiting.wait does with them: sleep_seconds is how long
\* it sleeps between two polls, and when the deadline passes is up to the
\* clock whatever the sleep.
loop_options(kw) ==
    [expected_exceptions |-> kw.expected_exceptions, on_poll |-> kw.on_poll]
NoKwargs == [expected_exceptions |-> {}, on_poll |-> FALSE]
NoExc == <<"none", 0, "none">>
\* the TypeError of the call "waiting.wait(self.poll, waiting_for=self,
\* timeout_seconds=timeout_seconds, **kwargs)"
CallError == <<"call", 0, "TypeError">>
LoopTimeout == <<"loop", 0, "TimeoutExpired">>
ConfigError == <<"validate", 0, "RuntimeError">>
Translated == <<"hook", 0, "Translated">>
\* the TypeError of "raise exc" when exc is no exception
BadRaise == <<"raise", 0, "TypeError">>
\* "assert callable(callback)" failing
AssertError == <<"assert", 0, "AssertionError">>

VARIABLES
    finished,           \* self._finished
    triggered,          \* self._triggered
    then_callbacks,     \* self._then
    during_callbacks,   \* self._during
    timeout_callbacks,  \* self._timeout_callbacks
    timeout_seconds,    \* self._timeout_seconds
    pc,                 \* "idle", or "waiting" while wait() is in its loop
    loop_timeout,       \* timeout_seconds handed to waiting.wait
    loop_kwargs,        \* what waiting.wait does with the other keyword arguments
    lastOp,             \* the operation called last
    lastRet,            \* its return value, "raised" or "pending"
    lastExc,            \* the exception it raised (NoExc if none)
    trace,              \* what that call invoked, in order
    inner,              \* what the poll() made by a during-callback invoked
    entryFinished,      \* is_finished() when that call started
    swallowed,          \* waiting.wait caught an exception of poll() in it
    thenCount,          \* calls of each then-callback since construction
    predTrueSeen,       \* some poll() has evaluated the predicate to true
    polls_left,         \* LiveSpec: evaluations until the predicate is true
    thenFailed,         \* some then-callback has raised
    tasks               \* CoopSpec: where each cooperative task stands

gate == <<finished, triggered, then_callbacks, during_callbacks,
          timeout_callbacks, timeout_seconds>>
call == <<lastOp, lastRet, lastExc, trace, inner, entryFinished, swallowed>>
vars == <<finished, triggered, then_callbacks, during_callbacks,
          timeout_callbacks, timeout_seconds, pc, loop_timeout, loop_kwargs,
          lastOp, lastRet, lastExc, trace, inner, entryFinished, swallowed,
          thenCount,
          predTrueSeen, polls_left, thenFailed, tasks>>

\* The cooperative tasks (greenlets) of CoopSpec and a task that has not
\* called the gate yet.
Tasks == {1, 2}
IdleTask == [op |-> "poll", pos |-> "idle", i |-> 0, exc |-> NoExc,
             ret |-> "none", saw |-> "none"]

(* --------------------------------------------------------------- helpers *)
Capped(c) == IF c < CountCap THEN c ELSE CountCap

\* The trace of a call is the sequence of what it invoked; an entry
\* <<what, index, outcome>> is callback number index of the registry what
\* (or the predicate, the hook, the except clause) and how it ended.
Calls(tr, what, i) ==
    Cardinality({k \in 1..Len(tr) : tr[k][1] = what /\ tr[k][2] = i})

\* the entries of a trace made by the registry (or place) what
Of(tr, what) == SelectSeq(tr, LAMBDA e : e[1] = what)

\* the entries of a trace that stand for a callback or the predicate raising
Raising(tr) ==
    SelectSeq(tr, LAMBDA e :
        /\ e[1] \in {"during", "pred", "then", "on_poll", "timeout"}
        /\ e[3] \in {"Exception", "TimeoutExpired", "KeyboardInterrupt"})

AllOk(n) == [i \in 1..n |-> "ok"]

Registered ==
    Len(then_callbacks) + Len(during_callbacks) + Len(timeout_callbacks)

\* The behaviours of n callbacks called by a loop that stops at the first one
\* that raises: the callbacks after it are not called and have no behaviour.
StopAtFirstRaise(n) ==
    {o \in [1..n -> Outcomes] :
        \A i, j \in 1..n : (i < j /\ o[i] # "ok") => o[j] = "ok"}

(* PactBase.__init__ *)
Init ==
    /\ finished = FALSE
    /\ triggered = FALSE
    /\ then_callbacks = <<>>
    /\ during_callbacks = <<>>
    /\ timeout_callbacks = <<>>
    /\ timeout_seconds = None
    /\ pc = "idle"
    /\ loop_timeout = None
    /\ loop_kwargs = NoKwargs
    /\ swallowed = FALSE
    /\ lastOp = "init"
    /\ lastRet = "None"
    /\ lastExc = NoExc
    /\ trace = <<>>
    /\ inner = <<>>
    /\ entryFinished = FALSE
    /\ thenCount = <<>>
    /\ predTrueSeen = FALSE
    /\ polls_left = 0
    /\ thenFailed = FALSE
    /\ tasks = [t \in Tasks |-> IdleTask]

(* ------------------------------------------------------------------ poll *)
\* "for callback in self._during: callback()": no exception handling, the
\* first callback that raises ends the loop and the call.
RECURSIVE during_loop_first_only(_, _, _)
during_loop_first_only(outs, i, tr) ==
    IF i > Len(outs) \/ i > 1 THEN [trace |-> tr, exc |-> NoExc]
    ELSE IF outs[i] # "ok"
         THEN [trace |-> Append(tr, <<"during", i, outs[i]>>),
               exc |-> <<"during", i, outs[i]>>]
         ELSE during_loop_first_only(outs, i + 1,
                                     Append(tr, <<"during", i, "ok">>))

RECURSIVE during_loop_isolated(_, _, _)
during_loop_isolated(outs, i, tr) ==
    IF i > Len(outs)
    THEN [trace |-> tr,
          exc |-> IF \E k \in 1..Len(tr) : tr[k][3] # "ok"
                  THEN tr[CHOOSE k \in 1..Len(tr) : tr[k][3] # "ok"]
                  ELSE NoExc]
    ELSE during_loop_isolated(outs, i + 1,
                              Append(tr, <<"during", i, outs[i]>>))

RECURSIVE during_loop(_, _, _)
during_loop(outs, i, tr) ==
    IF i > Len(outs) THEN [trace |-> tr, exc |-> NoExc]
    ELSE IF outs[i] # "ok"
         THEN [trace |-> Append(tr, <<"during", i, outs[i]>>),
               exc |-> <<"during", i, outs[i]>>]
         ELSE during_loop(outs, i + 1, Append(tr, <<"during", i, "ok">>))

\* what "except Exception" catches: TimeoutExpired is a subclass of
\* Exception, KeyboardInterrupt is not
is_exception(kind) == kind \in {"Exception", "TimeoutExpired"}

RECURSIVE then_loop_reversed(_, _, _, _)
then_loop_reversed(outs, i, tr, exc) ==
    IF i > Len(outs) THEN [trace |-> tr, exc |-> exc]
    ELSE LET k == Len(outs) + 1 - i IN
         then_loop_reversed(outs, i + 1, Append(tr, <<"then", k, outs[k]>>),
                            IF outs[k] # "ok" /\ exc = NoExc
                            THEN <<"then", k, outs[k]>> ELSE exc)

\* "for callback in self._then: try: callback() except Exception: if
\* exc_info is None: exc_info = sys.exc_info()": the first Exception is
\* kept and the loop goes on; what "except Exception" does not catch leaves
\* the loop and poll() at once.
RECURSIVE then_loop(_, _, _, _)
then_loop(outs, i, tr, exc) ==
    IF i > Len(outs) THEN [trace |-> tr, exc |-> exc]
    ELSE IF outs[i] # "ok" /\ ~is_exception(outs[i])
    THEN [trace |-> Append(tr, <<"then", i, outs[i]>>),
          exc |-> <<"then", i, outs[i]>>]
    ELSE then_loop(outs, i + 1, Append(tr, <<"then", i, outs[i]>>),
                   IF outs[i] # "ok" /\ exc = NoExc
                   THEN <<"then", i, outs[i]>> ELSE exc)

\* "if self._finished: return True"
poll_early_return(fin) == fin

should_trigger_never(fin, trig) == FALSE

should_trigger_no_latch(fin, trig) == fin

\* "if self._finished and not self._triggered"
should_trigger(fin, trig) == fin /\ ~trig

\* _is_finished(): the subclass's predicate answers or raises.
is_finished_predicate(pOut) ==
    IF pOut \in {"True", "False"}
    THEN [raised |-> FALSE, value |-> (pOut = "True"), exc |-> NoExc,
          event |-> <<"pred", 0, pOut>>]
    ELSE [raised |-> TRUE, value |-> FALSE, exc |-> <<"pred", 0, pOut>>,
          event |-> <<"pred", 0, pOut>>]

BoolStr(b) == IF b THEN "True" ELSE "False"

poll_return_missing(fin) == "None"

\* "return self.is_finished()"
poll_return(fin) == BoolStr(fin)

\* poll() from "self._finished = self._is_finished()" on: d is what the
\* loop over the during-callbacks has done, (fin, trig) are the flags as
\* that loop leaves them, pOut and tOut the behaviours of the predicate and
\* of the then-callbacks if they get called.
poll_after_during(fin, trig, d, pOut, tOut) ==
    IF d.exc # NoExc
    THEN [finished |-> fin, triggered |-> trig, trace |-> d.trace,
          ret |-> "raised", exc |-> d.exc, sawTrue |-> FALSE]
    ELSE
    LET p == is_finished_predicate(pOut)
        tr1 == Append(d.trace, p.event) IN
    IF p.raised
    THEN [finished |-> fin, triggered |-> trig, trace |-> tr1,
          ret |-> "raised", exc |-> p.exc, sawTrue |-> FALSE]
    ELSE
    LET fin1 == p.value IN
    IF should_trigger(fin1, trig)
    THEN LET t == then_loop(tOut, 1, tr1, NoExc) IN
         [finished |-> fin1, triggered |-> TRUE, trace |-> t.trace,
          ret |-> IF t.exc # NoExc THEN "raised" ELSE poll_return(fin1),
          exc |-> t.exc, sawTrue |-> p.value]
    ELSE [finished |-> fin1, triggered |-> trig, trace |-> tr1,
          ret |-> poll_return(fin1), exc |-> NoExc, sawTrue |-> p.value]

\* One call of poll() from the state (fin, trig) in which no callback calls
\* back into the gate; dOut, pOut, tOut are the behaviours of the
\* during-callbacks, of the predicate and of the then-callbacks if they get
\* called.
poll_plain(fin, trig, dOut, pOut, tOut) ==
    IF poll_early_return(fin)
    THEN [finished |-> fin, triggered |-> trig, trace |-> <<>>,
          ret |-> "True", exc |-> NoExc, sawTrue |-> FALSE]
    ELSE poll_after_during(fin, trig, during_loop(dOut, 1, <<>>), pOut, tOut)

\* A during-callback may call back into the gate.  nest.at is the number of
\* the during-callback that calls self.poll() (0 if none does); nest.dOut,
\* nest.pOut and nest.tOut are the behaviours of the during-callbacks, of
\* the predicate and of the then-callbacks in the poll() it makes, where no
\* during-callback calls back again.  After that poll() the callback ends
\* as its behaviour in the outer call says: it returns, or it raises, which
\* is also what it does when it lets the exception of its poll() through.
NoNest == [at |-> 0, dOut |-> <<>>, pOut |-> "False", tOut |-> <<>>]

\* One call of poll() from the state (fin, trig).  With nest.at > 0 the
\* flags the loop over the during-callbacks leaves are those of the poll()
\* that during-callback made; inner is what that poll() invoked.  dOut is
\* how the during-callbacks end, the one that calls back after its poll():
\* it returns, or raises, be it the exception of that poll().
poll(fin, trig, dOut, pOut, tOut, nest) ==
    IF poll_early_return(fin) \/ nest.at = 0
    THEN LET o == poll_plain(fin, trig, dOut, pOut, tOut) IN
         [finished |-> o.finished, triggered |-> o.triggered,
          trace |-> o.trace, ret |-> o.ret, exc |-> o.exc,
          sawTrue |-> o.sawTrue, inner |-> <<>>, innerExc |-> NoExc]
    ELSE LET n == poll_plain(fin, trig, nest.dOut, nest.pOut, nest.tOut)
             o == poll_after_during(n.finished, n.triggered,
                                    during_loop(dOut, 1, <<>>), pOut, tOut) IN
         [finished |-> o.finished, triggered |-> o.triggered,
          trace |-> o.trace, ret |-> o.ret, exc |-> o.exc,
          sawTrue |-> (o.sawTrue \/ n.sawTrue),
          inner |-> n.trace, innerExc |-> n.exc]

\* The inputs of one poll(): a behaviour for every callback and for the
\* predicate, as far as the call gets to them.
DuringInputs ==
    IF finished THEN {AllOk(Len(during_callbacks))}
    ELSE StopAtFirstRaise(Len(during_callbacks))

PredInputs(dOut, nest) ==
    IF finished \/ dOut # AllOk(Len(during_callbacks)) THEN {"False"}
    ELSE PredOutcomes

\* then-callbacks of a pass that "except Exception" lets an exception out
\* of are not called after it and have no behaviour
ThenVectors(outs) ==
    {o \in [1..Len(then_callbacks) -> outs] :
        \A i, j \in 1..Len(then_callbacks) :
           (i < j /\ o[i] # "ok" /\ ~is_exception(o[i])) => o[j] = "ok"}

\* the during-callback that calls poll() is one that gets called; in its
\* poll() the predicate is evaluated if every during-callback returns, and
\* the then-callbacks are called if the predicate is true there and the
\* gate has not fired yet
NestInputs(dOut, re) ==
    IF finished \/ ~re THEN {NoNest}
    ELSE LET ats == {k \in 1..Len(dOut) : \A i \in 1..(k - 1) : dOut[i] = "ok"}
             oks == AllOk(Len(during_callbacks))
             none == AllOk(Len(then_callbacks)) IN
         {NoNest}
         \cup {[at |-> k, dOut |-> d, pOut |-> "False", tOut |-> none] :
                  k \in ats, d \in DuringInputs \ {oks}}
         \cup {[at |-> k, dOut |-> oks, pOut |-> p, tOut |-> none] :
                  k \in ats, p \in PredOutcomes \ {"True"}}
         \cup {[at |-> k, dOut |-> oks, pOut |-> "True", tOut |-> t] :
                  k \in ats,
                  t \in IF triggered THEN {none} ELSE ThenVectors(Outcomes)}

\* the then-callbacks get called when the predicate is true and neither an
\* earlier poll() nor the one of a during-callback has fired them
ThenInputs(pOut, nest) ==
    IF finished \/ triggered \/ pOut # "True"
       \/ (nest.at > 0 /\ nest.pOut = "True")
    THEN {AllOk(Len(then_callbacks))}
    ELSE ThenVectors(Outcomes)

ApplyPoll(r) ==
    /\ finished' = r.finished
    /\ triggered' = r.triggered
    /\ thenCount' = [i \in 1..Len(thenCount) |->
                        Capped(thenCount[i] + Calls(r.trace, "then", i)
                                            + Calls(r.inner, "then", i))]
    /\ predTrueSeen' = (predTrueSeen \/ r.sawTrue)
    /\ thenFailed' = (thenFailed \/ r.exc[1] = "then"
                                 \/ r.innerExc[1] = "then")
    /\ inner' = r.inner

(* A call of poll() (op = "poll") or of the deprecated finished(), which *)
(* is "self.poll(); return self.is_finished()".  re says whether the      *)
(* during-callbacks may call back into the gate.                          *)
PollCall(op, re) ==
    /\ pc = "idle"
    /\ \E dOut \in DuringInputs :
       \E nest \in NestInputs(dOut, re) :
       \E pOut \in PredInputs(dOut, nest) :
       \E tOut \in ThenInputs(pOut, nest) :
       \E r \in {poll(finished, triggered, dOut, pOut, tOut, nest)} :
         /\ ApplyPoll(r)
         /\ lastOp' = op
         /\ lastRet' = IF op = "poll" THEN r.ret
                       ELSE IF r.exc # NoExc THEN "raised"
                       ELSE BoolStr(r.finished)
         /\ lastExc' = r.exc
         /\ trace' = r.trace
    /\ entryFinished' = finished
    /\ swallowed' = FALSE
    /\ UNCHANGED <<then_callbacks, during_callbacks, timeout_callbacks,
                   timeout_seconds, pc, loop_timeout, loop_kwargs,
                   polls_left, tasks>>

(* poll() called directly *)
Poll == PollCall("poll", TRUE)

(* finished() *)
Finished == PollCall("finished", TRUE)

(* poll() and finished() on a gate whose callbacks do not call back *)
PlainPoll == PollCall("poll", FALSE)

PlainFinished == PollCall("finished", FALSE)

(* ---------------------------------------------------------- registration *)
validate_can_add_callback_never(fin) == FALSE

\* _validate_can_add_callback raises RuntimeError exactly when the pact is
\* finished.
validate_can_add_callback(fin) == fin

SetCall(op, ret, exc) ==
    /\ lastOp' = op
    /\ lastRet' = ret
    /\ lastExc' = exc
    /\ trace' = <<>>
    /\ inner' = <<>>
    /\ entryFinished' = finished
    /\ swallowed' = FALSE

(* then(callback) *)
Then(cb) ==
    /\ pc = "idle"
    /\ Registered < MaxRegistrations
    /\ IF cb \in NotCallables
       THEN /\ SetCall("then", "raised", AssertError)
            /\ UNCHANGED <<then_callbacks, thenCount>>
       ELSE IF validate_can_add_callback(finished)
       THEN /\ SetCall("then", "raised", ConfigError)
            /\ UNCHANGED <<then_callbacks, thenCount>>
       ELSE /\ then_callbacks' = Append(then_callbacks, cb)
            /\ thenCount' = Append(thenCount, 0)
            /\ SetCall("then", "self", NoExc)
    /\ UNCHANGED <<finished, triggered, during_callbacks, timeout_callbacks,
                   timeout_seconds, pc, loop_timeout, loop_kwargs, predTrueSeen,
                   polls_left, thenFailed, tasks>>

(* during(callback) *)
During(cb) ==
    /\ pc = "idle"
    /\ Registered < MaxRegistrations
    /\ IF cb \in NotCallables
       THEN /\ SetCall("during", "raised", AssertError)
            /\ UNCHANGED during_callbacks
       ELSE IF validate_can_add_callback(finished)
       THEN /\ SetCall("during", "raised", ConfigError)
            /\ UNCHANGED during_callbacks
       ELSE /\ during_callbacks' = Append(during_callbacks, cb)
            /\ SetCall("during", "self", NoExc)
    /\ UNCHANGED <<finished, triggered, then_callbacks, timeout_callbacks,
                   timeout_seconds, pc, loop_timeout, loop_kwargs, thenCount,
                   predTrueSeen, polls_left, thenFailed, tasks>>

(* on_timeout(callback) *)
OnTimeout(cb) ==
    /\ pc = "idle"
    /\ Registered < MaxRegistrations
    /\ IF cb \in NotCallables
       THEN /\ SetCall("on_timeout", "raised", AssertError)
            /\ UNCHANGED timeout_callbacks
       ELSE IF validate_can_add_callback(finished)
       THEN /\ SetCall("on_timeout", "raised", ConfigError)
            /\ UNCHANGED timeout_callbacks
       ELSE /\ timeout_callbacks' = Append(timeout_callbacks, cb)
            /\ SetCall("on_timeout", "self", NoExc)
    /\ UNCHANGED <<finished, triggered, then_callbacks, during_callbacks,
                   timeout_seconds, pc, loop_timeout, loop_kwargs, thenCount,
                   predTrueSeen, polls_left, thenFailed, tasks>>

\* set_default_timeout stores its argument; it makes no check.
default_timeout_rejected(fin) == FALSE

(* set_default_timeout(timeout_seconds) *)
SetDefaultTimeout(t) ==
    /\ pc = "idle"
    /\ IF default_timeout_rejected(finished)
       THEN /\ SetCall("set_default_timeout", "raised", ConfigError)
            /\ UNCHANGED timeout_seconds
       ELSE /\ timeout_seconds' = t
            /\ SetCall("set_default_timeout", "None", NoExc)
    /\ UNCHANGED <<finished, triggered, then_callbacks, during_callbacks,
                   timeout_callbacks, pc, loop_timeout, loop_kwargs, thenCount,
                   predTrueSeen, polls_left, thenFailed, tasks>>

(* ------------------------------------------------------------------ wait *)
resolve_timeout_falsy(arg, dflt) == IF arg = None \/ arg = 0 THEN dflt ELSE arg

\* "if timeout_seconds is None: timeout_seconds = self._timeout_seconds"
resolve_timeout(arg, dflt) == IF arg = None THEN dflt ELSE arg

RECURSIVE timeout_loop_isolated(_, _, _)
timeout_loop_isolated(outs, i, tr) ==
    IF i > Len(outs)
    THEN [trace |-> tr,
          exc |-> IF Raising(Of(tr, "timeout")) = <<>> THEN NoExc
                  ELSE Raising(Of(tr, "timeout"))[1]]
    ELSE timeout_loop_isolated(outs, i + 1,
                               Append(tr, <<"timeout", i, outs[i]>>))

\* "for timeout_callback in self._timeout_callbacks: timeout_callback()":
\* no exception handling, the first callback that raises ends the handler.
RECURSIVE timeout_loop(_, _, _)
timeout_loop(outs, i, tr) ==
    IF i > Len(outs) THEN [trace |-> tr, exc |-> NoExc]
    ELSE IF outs[i] # "ok"
         THEN [trace |-> Append(tr, <<"timeout", i, outs[i]>>),
               exc |-> <<"timeout", i, outs[i]>>]
         ELSE timeout_loop(outs, i + 1, Append(tr, <<"timeout", i, "ok">>))

timeout_exception_reraise(h, original) == original

\* "exc = self.get_timeout_exception(exc_info); if exc is None:
\* reraise(*exc_info) else: raise exc": h is what the hook returned.
timeout_exception(h, original) ==
    IF h = "None" THEN original
    ELSE IF h = "Translated" THEN Translated
    ELSE IF h = "NotAnException" THEN BadRaise
    ELSE <<"hook", 0, h>>

\* The "except TimeoutExpired" handler of wait(): tr is what the call has
\* invoked so far, original the TimeoutExpired that was caught.
timeout_handler(tr, original, h, oOut) ==
    LET o == timeout_loop(oOut, 1, Append(tr, <<"except", 0, "TimeoutExpired">>)) IN
    IF o.exc # NoExc
    THEN [trace |-> o.trace, exc |-> o.exc]
    ELSE [trace |-> Append(o.trace, <<"hook", 0, h>>),
          exc |-> timeout_exception(h, original)]

\* The deadline of waiting.wait, looked at after a poll() that returned
\* false: it never passes with no timeout, has passed with a timeout of 0,
\* and is up to the clock otherwise.
deadline_expired(timeout, clock) ==
    IF timeout = None THEN FALSE
    ELSE IF timeout = 0 THEN TRUE ELSE clock

is_timeout_any(exc) == TRUE

\* "except TimeoutExpired" catches the timeout of waiting.wait and any
\* TimeoutExpired that poll() let through.
is_timeout(exc) == exc[3] = "TimeoutExpired"

\* The call of waiting.wait raises TypeError before anything is polled
\* when **kwargs holds waiting_for, which the call passes itself, or a
\* keyword that waiting.wait does not take.
call_rejected(kw) == kw.other # "none"

(* wait(timeout_seconds, **kwargs): up to the call of waiting.wait, which *)
(* "except Exception" lets out again when it is rejected                  *)
WaitBegin(t, kw) ==
    /\ pc = "idle"
    /\ IF call_rejected(kw)
       THEN /\ pc' = "idle"
            /\ UNCHANGED <<loop_timeout, loop_kwargs>>
            /\ lastRet' = "raised"
            /\ lastExc' = CallError
       ELSE /\ pc' = "waiting"
            /\ loop_timeout' = resolve_timeout(t, timeout_seconds)
            /\ loop_kwargs' = loop_options(kw)
            /\ lastRet' = "pending"
            /\ lastExc' = NoExc
    /\ lastOp' = "wait"
    /\ trace' = <<>>
    /\ inner' = <<>>
    /\ entryFinished' = finished
    /\ swallowed' = FALSE
    /\ UNCHANGED <<gate, thenCount, predTrueSeen, polls_left, thenFailed,
                   tasks>>

expected_always(kw, exc) == exc # NoExc

\* "except expected_exceptions: pass" of waiting.wait around its call of
\* poll(): it catches what poll() raises when that is an instance of one
\* of the classes given.
expected(kw, exc) ==
    /\ exc # NoExc
    /\ exc[3] \in kw.expected_exceptions

\* One round of waiting.wait up to its look at the deadline: it calls
\* poll() (result r), catches an expected exception (the result of the
\* round is then false), and calls on_poll when one was given (poOut is
\* how that ends).  exc is the exception that leaves waiting.wait here.
loop_round(r, kw, poOut) ==
    IF r.exc # NoExc /\ ~expected(kw, r.exc)
    THEN [exc |-> r.exc, result |-> "False", trace |-> r.trace,
          caught |-> FALSE]
    ELSE LET c == expected(kw, r.exc)
             tr1 == IF c THEN Append(r.trace, <<"expected", 0, r.exc[3]>>)
                    ELSE r.trace
             res == IF c THEN "False" ELSE r.ret IN
         IF kw.on_poll
         THEN [exc |-> IF poOut = "ok" THEN NoExc ELSE <<"on_poll", 0, poOut>>,
               result |-> res,
               trace |-> Append(tr1, <<"on_poll", 0, poOut>>),
               caught |-> c]
         ELSE [exc |-> NoExc, result |-> res, trace |-> tr1, caught |-> c]

\* How wait() ends (or goes on) after the round lr: clock says whether the
\* deadline has passed, h and oOut what the hook and the on_timeout
\* callbacks do if they get called.
wait_outcome(lr, timeout, clock, h, oOut) ==
    IF lr.exc # NoExc
    THEN IF is_timeout(lr.exc)
         THEN LET hd == timeout_handler(lr.trace, lr.exc, h, oOut) IN
              [pc |-> "idle", ret |-> "raised", exc |-> hd.exc,
               trace |-> hd.trace]
         ELSE [pc |-> "idle", ret |-> "raised", exc |-> lr.exc,
               trace |-> lr.trace]
    ELSE IF lr.result = "True"
    THEN [pc |-> "idle", ret |-> "None", exc |-> NoExc, trace |-> lr.trace]
    ELSE IF deadline_expired(timeout, clock)
    THEN LET hd == timeout_handler(lr.trace, LoopTimeout, h, oOut) IN
         [pc |-> "idle", ret |-> "raised", exc |-> hd.exc, trace |-> hd.trace]
    ELSE [pc |-> "waiting", ret |-> "pending", exc |-> NoExc,
          trace |-> lr.trace]

\* The inputs of the rest of a round after a poll() with result r.
OnPollInputs(r) ==
    IF loop_kwargs.on_poll /\ (r.exc = NoExc \/ expected(loop_kwargs, r.exc))
    THEN Outcomes ELSE {"ok"}

ClockInputs(lr) ==
    IF lr.exc = NoExc /\ lr.result = "False" /\ loop_timeout = PositiveTimeout
    THEN BOOLEAN ELSE {FALSE}

HandlerRuns(lr, clock) ==
    \/ lr.exc # NoExc /\ is_timeout(lr.exc)
    \/ /\ lr.exc = NoExc /\ lr.result = "False"
       /\ deadline_expired(loop_timeout, clock)

TimeoutInputs(lr, clock) ==
    IF HandlerRuns(lr, clock) THEN StopAtFirstRaise(Len(timeout_callbacks))
    ELSE {AllOk(Len(timeout_callbacks))}

HookInputs(lr, clock, oOut) ==
    IF HandlerRuns(lr, clock) /\ oOut = AllOk(Len(timeout_callbacks))
    THEN HookReturns ELSE {"None"}

\* One round of waiting.wait (it calls poll(), with result r, and on_poll,
\* then looks at the deadline) and the rest of wait() when that round ends
\* the loop.
WaitRound(r, poOut, clock, h, oOut) ==
    \E lr \in {loop_round(r, loop_kwargs, poOut)} :
    \E w \in {wait_outcome(lr, loop_timeout, clock, h, oOut)} :
    /\ pc = "waiting"
    /\ ApplyPoll(r)
    /\ pc' = w.pc
    /\ loop_timeout' = IF w.pc = "idle" THEN None ELSE loop_timeout
    /\ loop_kwargs' = IF w.pc = "idle" THEN NoKwargs ELSE loop_kwargs
    /\ lastRet' = w.ret
    /\ lastExc' = w.exc
    /\ trace' = w.trace
    /\ swallowed' = (swallowed \/ lr.caught)
    /\ UNCHANGED <<then_callbacks, during_callbacks, timeout_callbacks,
                   timeout_seconds, lastOp, entryFinished, tasks>>

(* wait(): waiting.wait calls poll() once more *)
WaitLoop(re) ==
    /\ pc = "waiting"
    /\ \E dOut \in DuringInputs :
       \E nest \in NestInputs(dOut, re) :
       \E pOut \in PredInputs(dOut, nest) :
       \E tOut \in ThenInputs(pOut, nest) :
       \E r \in {poll(finished, triggered, dOut, pOut, tOut, nest)} :
       \E poOut \in OnPollInputs(r) :
       \E lr \in {loop_round(r, loop_kwargs, poOut)} :
       \E clock \in ClockInputs(lr) :
       \E oOut \in TimeoutInputs(lr, clock) :
       \E h \in HookInputs(lr, clock, oOut) :
          WaitRound(r, poOut, clock, h, oOut)
    /\ UNCHANGED polls_left

WaitStep == WaitLoop(TRUE)

(* the same on a gate whose callbacks do not call back *)
PlainWaitStep == WaitLoop(FALSE)

Next ==
    \/ \E cb \in CallbackArgs : Then(cb)
    \/ \E cb \in CallbackArgs : During(cb)
    \/ \E cb \in CallbackArgs : OnTimeout(cb)
    \/ \E t \in TimeoutValues : SetDefaultTimeout(t)
    \/ PlainPoll
    \/ PlainFinished
    \/ \E t \in TimeoutValues : \E kw \in KwargsValues : WaitBegin(t, kw)
    \/ PlainWaitStep

Spec == Init /\ [][Next]_vars

(* The gate with during-callbacks that call back into it.  The default    *)
(* timeout stays None and wait() is called with a timeout and no further   *)
(* keyword.                                                                *)
PlainCall == [expected_exceptions |-> {}, on_poll |-> FALSE,
              sleep_seconds |-> "unset", other |-> "none"]

ReentrantNext ==
    \/ \E cb \in CallbackArgs :
          Registered < MaxReentrantRegistrations /\ Then(cb)
    \/ \E cb \in CallbackArgs :
          Registered < MaxReentrantRegistrations /\ During(cb)
    \/ \E cb \in CallbackArgs :
          Registered < MaxReentrantRegistrations /\ OnTimeout(cb)
    \/ Poll
    \/ Finished
    \/ \E t \in TimeoutValues : WaitBegin(t, PlainCall)
    \/ WaitStep

ReentrantSpec == Init /\ [][ReentrantNext]_vars

(* ------------------------------------------------------------- liveness *)
(* The gate under the conditions of a wait() that must end well: the      *)
(* predicate is false for polls_left evaluations and true from then on,   *)
(* no callback raises, the hook translates nothing and the clock of       *)
(* waiting.wait never passes a positive deadline.  waiting.wait calls     *)
(* poll() again after every sleep, hence the weak fairness of             *)
(* WaitStepLive.                                                          *)
LiveInit ==
    /\ finished = FALSE
    /\ triggered = FALSE
    /\ then_callbacks = <<>>
    /\ during_callbacks = <<>>
    /\ timeout_callbacks = <<>>
    /\ timeout_seconds = None
    /\ pc = "idle"
    /\ loop_timeout = None
    /\ loop_kwargs = NoKwargs
    /\ swallowed = FALSE
    /\ lastOp = "init"
    /\ lastRet = "None"
    /\ lastExc = NoExc
    /\ trace = <<>>
    /\ inner = <<>>
    /\ entryFinished = FALSE
    /\ thenCount = <<>>
    /\ predTrueSeen = FALSE
    /\ polls_left \in 0..MaxPollsUntilTrue
    /\ thenFailed = FALSE
    /\ tasks = [t \in Tasks |-> IdleTask]

WaitStepLive ==
    /\ \E r \in {poll(finished, triggered, AllOk(Len(during_callbacks)),
                      BoolStr(polls_left = 0), AllOk(Len(then_callbacks)),
                      NoNest)} :
          WaitRound(r, "ok", FALSE, "None", AllOk(Len(timeout_callbacks)))
    /\ polls_left' = IF finished \/ polls_left = 0 THEN polls_left
                     ELSE polls_left - 1

LiveNext ==
    \/ \E cb \in CallbackArgs : Then(cb)
    \/ \E cb \in CallbackArgs : During(cb)
    \/ \E cb \in CallbackArgs : OnTimeout(cb)
    \/ \E t \in TimeoutValues : SetDefaultTimeout(t)
    \/ \E t \in TimeoutValues : \E kw \in KwargsValues : WaitBegin(t, kw)
    \/ WaitStepLive

LiveSpec == LiveInit /\ [][LiveNext]_vars /\ WF_vars(WaitStepLive)

(* ------------------------------------------------- cooperative tasks *)
(* Several greenlets call poll() or wait() on one gate. A task runs until *)
(* it is inside a during-callback, the predicate or a then-callback,      *)
(* where it may yield; a step resumes one task and runs it to its next    *)
(* yield or to its return. What lies between two yields is atomic.        *)
(* tasks[t].pos says where task t is suspended, tasks[t].i in which       *)
(* callback. No deadline is set: the wait loop only ends on true or on an *)
(* exception.                                                             *)
CoopOutcomes == {"ok", "Exception", "KeyboardInterrupt"}
CoopPredOutcomes == {"True", "False", "Exception", "KeyboardInterrupt"}

\* poll() returned ret or raised exc in the task with record me: a poll()
\* call is over; waiting.wait returns on true, sleeps on false and lets an
\* exception through.
CoopReturn(me, ret, exc) ==
    IF me.op = "wait" /\ ret = "False"
    THEN [me EXCEPT !.pos = "sleep", !.i = 0, !.exc = NoExc]
    ELSE [me EXCEPT !.pos = "done", !.i = 0, !.exc = exc,
                    !.ret = IF me.op = "wait" /\ ret = "True"
                            THEN "None" ELSE ret]

\* the task enters poll(): "if self._finished: return True", else it goes
\* into the first during-callback, or into the predicate when there is none
CoopEnter(me) ==
    IF poll_early_return(finished) THEN CoopReturn(me, "True", NoExc)
    ELSE IF Len(during_callbacks) > 0
    THEN [me EXCEPT !.pos = "during", !.i = 1, !.saw = "none"]
    ELSE [me EXCEPT !.pos = "pred", !.i = 0, !.saw = "none"]

(* task t calls poll() or wait() *)
CoopCall(t, op) ==
    /\ tasks[t].pos \in {"idle", "done"}
    /\ tasks' = [tasks EXCEPT ![t] = CoopEnter([IdleTask EXCEPT !.op = op])]
    /\ UNCHANGED <<gate, pc, loop_timeout, loop_kwargs, call, thenCount, predTrueSeen,
                   polls_left, thenFailed>>

(* waiting.wait in task t wakes up and calls poll() again *)
CoopWake(t) ==
    /\ tasks[t].pos = "sleep"
    /\ tasks' = [tasks EXCEPT ![t] = CoopEnter(tasks[t])]
    /\ UNCHANGED <<gate, pc, loop_timeout, loop_kwargs, call, thenCount, predTrueSeen,
                   polls_left, thenFailed>>

(* during-callback i of task t ends with out; the loop goes on *)
CoopDuring(t, out) ==
    LET me == tasks[t] IN
    /\ me.pos = "during"
    /\ tasks' = [tasks EXCEPT ![t] =
          IF out # "ok"
          THEN CoopReturn(me, "raised", <<"during", me.i, out>>)
          ELSE IF me.i < Len(during_callbacks)
          THEN [me EXCEPT !.i = me.i + 1]
          ELSE [me EXCEPT !.pos = "pred", !.i = 0]]
    /\ UNCHANGED <<gate, pc, loop_timeout, loop_kwargs, call, thenCount, predTrueSeen,
                   polls_left, thenFailed>>

(* the predicate of task t ends with out: "self._finished =             *)
(* self._is_finished()", "if self._finished and not self._triggered:    *)
(* self._triggered = True" and the entry into the first then-callback   *)
CoopPred(t, out) ==
    LET me == [tasks[t] EXCEPT !.saw = out]
        v == (out = "True") IN
    /\ tasks[t].pos = "pred"
    /\ IF out \notin {"True", "False"}
       THEN /\ tasks' = [tasks EXCEPT ![t] =
                            CoopReturn(me, "raised", <<"pred", 0, out>>)]
            /\ UNCHANGED <<finished, triggered, thenCount, predTrueSeen>>
       ELSE /\ finished' = v
            /\ predTrueSeen' = (predTrueSeen \/ v)
            /\ IF should_trigger(v, triggered)
               THEN /\ triggered' = TRUE
                    /\ IF Len(then_callbacks) > 0
                       THEN /\ tasks' = [tasks EXCEPT ![t] =
                                  [me EXCEPT !.pos = "then", !.i = 1]]
                            /\ thenCount' = [thenCount EXCEPT ![1] =
                                                Capped(@ + 1)]
                       ELSE /\ tasks' = [tasks EXCEPT ![t] =
                                  CoopReturn(me, poll_return(v), NoExc)]
                            /\ UNCHANGED thenCount
               ELSE /\ tasks' = [tasks EXCEPT ![t] =
                          CoopReturn(me, poll_return(v), NoExc)]
                    /\ UNCHANGED <<triggered, thenCount>>
    /\ UNCHANGED <<then_callbacks, during_callbacks, timeout_callbacks,
                   timeout_seconds, pc, loop_timeout, loop_kwargs, call, polls_left,
                   thenFailed>>

(* then-callback i of task t ends with out: what "except Exception"    *)
(* does not catch leaves poll() at once; else the first exception is    *)
(* kept, the loop goes on; after the last callback "raise exc_info" or  *)
(* "return self.is_finished()"                                          *)
CoopThen(t, out) ==
    LET me == tasks[t]
        exc == IF out # "ok" /\ me.exc = NoExc
               THEN <<"then", me.i, out>> ELSE me.exc IN
    /\ me.pos = "then"
    /\ IF out # "ok" /\ ~is_exception(out)
       THEN /\ tasks' = [tasks EXCEPT ![t] =
                  CoopReturn(me, "raised", <<"then", me.i, out>>)]
            /\ UNCHANGED thenCount
       ELSE IF me.i < Len(then_callbacks)
       THEN /\ tasks' = [tasks EXCEPT ![t] =
                  [me EXCEPT !.i = me.i + 1, !.exc = exc]]
            /\ thenCount' = [thenCount EXCEPT ![me.i + 1] = Capped(@ + 1)]
       ELSE /\ tasks' = [tasks EXCEPT ![t] =
                  IF exc # NoExc THEN CoopReturn(me, "raised", exc)
                  ELSE CoopReturn(me, poll_return(finished), NoExc)]
            /\ UNCHANGED thenCount
    /\ thenFailed' = (thenFailed \/ out # "ok")
    /\ UNCHANGED <<gate, pc, loop_timeout, loop_kwargs, call, predTrueSeen, polls_left>>

CoopNext ==
    \/ \E cb \in CallbackArgs : Then(cb)
    \/ \E cb \in CallbackArgs : During(cb)
    \/ \E t \in Tasks : \E op \in {"poll", "wait"} : CoopCall(t, op)
    \/ \E t \in Tasks : CoopWake(t)
    \/ \E t \in Tasks : \E out \in CoopOutcomes : CoopDuring(t, out)
    \/ \E t \in Tasks : \E out \in CoopPredOutcomes : CoopPred(t, out)
    \/ \E t \in Tasks : \E out \in CoopOutcomes : CoopThen(t, out)

CoopSpec == Init /\ [][CoopNext]_vars

(* ================================================================ claims *)
Flags == <<finished, triggered>>
Registries == <<then_callbacks, during_callbacks, timeout_callbacks>>

\* the first index of a sequence of outcomes that is not "ok", 0 if none
FirstRaise(evs) ==
    IF \A k \in 1..Len(evs) : evs[k][3] = "ok" THEN 0
    ELSE CHOOSE k \in 1..Len(evs) :
            /\ evs[k][3] # "ok"
            /\ \A j \in 1..(k - 1) : evs[j][3] = "ok"

\* the operations that are one call of poll(): poll() itself and the
\* deprecated finished()
PollOps == {"poll", "finished"}

\* the poll() that a during-callback made evaluated the predicate to true
InnerSawTrue(in) == \E k \in 1..Len(in) : in[k] = <<"pred", 0, "True">>

\* C1: completion is monotonic.  is_finished() is true exactly when some
\* poll() has evaluated the predicate to true, and no step takes it from
\* true back to false, whatever the callbacks and the predicate do later.
C1_CompletionMonotonic ==
    /\ [](finished <=> predTrueSeen)
    /\ [][finished => finished']_vars

\* C2: every registered then-callback has been called zero times as long
\* as no poll() has seen the predicate true, and exactly once in total from
\* then on, whatever poll() and wait() calls follow and whether or not a
\* then-callback raised: the poll() that observes completion calls each of
\* them once, a call that starts on a finished gate calls none.
C2_ThenExactlyOnce ==
    /\ [](\A i \in 1..Len(then_callbacks) : ~predTrueSeen => thenCount[i] = 0)
    /\ [][~predTrueSeen /\ predTrueSeen' =>
            \A i \in 1..Len(then_callbacks) : thenCount'[i] = 1]_vars
    /\ [][predTrueSeen =>
            \A i \in 1..Len(then_callbacks) : thenCount'[i] = thenCount[i]]_vars

\* what C3 says of a poll() that starts on a finished gate
PollOnFinishedIsARead ==
    /\ [](lastOp \in PollOps /\ entryFinished =>
            trace = <<>> /\ lastRet = "True" /\ lastExc = NoExc)
    /\ [][lastOp' \in PollOps /\ finished =>
            UNCHANGED <<gate, thenCount, predTrueSeen>>]_vars

\* C3 as stated: a poll() that starts unfinished calls every registered
\* during-callback once; a poll() that starts finished calls nothing,
\* changes nothing and returns true.
C3_Original ==
    /\ [](lastOp \in PollOps /\ ~entryFinished =>
            \A i \in 1..Len(during_callbacks) :
                Calls(trace, "during", i) = 1)
    /\ PollOnFinishedIsARead

\* C3 amended: a poll() that starts unfinished calls the during-callbacks
\* once each in registration order, up to and including the first one that
\* raises (all of them when none raises, so in every call that gets to the
\* predicate, the one that observes completion included); a poll() that
\* starts finished calls nothing, changes nothing and returns true.
C3_DuringUntilFirstRaise ==
    /\ [](lastOp \in PollOps /\ ~entryFinished =>
            LET d == Of(trace, "during")
                last == IF FirstRaise(d) = 0 THEN Len(during_callbacks)
                        ELSE FirstRaise(d) IN
            /\ Len(d) = last
            /\ \A i \in 1..Len(d) : d[i][2] = i
            /\ (Of(trace, "pred") # <<>> => Len(d) = Len(during_callbacks)))
    /\ PollOnFinishedIsARead

\* a poll() that started unfinished, observed completion and called two
\* during-callbacks
C3_Witness ==
    /\ lastOp = "poll" /\ ~entryFinished /\ finished
    /\ Len(during_callbacks) = 2
    /\ Calls(trace, "during", 1) = 1 /\ Calls(trace, "during", 2) = 1

\* C4: then(), during() and on_timeout() on a finished gate raise the
\* configuration error and leave the three registries and the two flags as
\* they are; on an unfinished gate they return the gate and append the
\* callback to the end of their own registry and to no other.  The claim
\* is about callbacks: what is registered is callable.
C4_Registration ==
    [][\A cb \in Callbacks :
        /\ lastOp' \in {"then", "during", "on_timeout"}
           /\ (Then(cb) \/ During(cb) \/ OnTimeout(cb)) =>
              /\ UNCHANGED Flags
              /\ IF finished
                 THEN /\ UNCHANGED Registries
                      /\ lastRet' = "raised" /\ lastExc' = ConfigError
                 ELSE lastRet' = "self" /\ lastExc' = NoExc
        /\ lastOp' = "then" /\ Then(cb) /\ ~finished =>
              /\ then_callbacks' = Append(then_callbacks, cb)
              /\ UNCHANGED <<during_callbacks, timeout_callbacks>>
        /\ lastOp' = "during" /\ During(cb) /\ ~finished =>
              /\ during_callbacks' = Append(during_callbacks, cb)
              /\ UNCHANGED <<then_callbacks, timeout_callbacks>>
        /\ lastOp' = "on_timeout" /\ OnTimeout(cb) /\ ~finished =>
              /\ timeout_callbacks' = Append(timeout_callbacks, cb)
              /\ UNCHANGED <<then_callbacks, during_callbacks>>]_vars

\* a registration refused on a finished gate that already has callbacks
C4_Witness ==
    /\ finished /\ lastOp \in {"then", "during", "on_timeout"}
    /\ lastRet = "raised" /\ lastExc = ConfigError
    /\ Registered > 0

\* C5: set_default_timeout() on a finished gate raises the configuration
\* error and leaves the stored default timeout as it was.
C5_DefaultTimeoutGuarded ==
    [][\A t \in TimeoutValues :
        SetDefaultTimeout(t) /\ finished =>
            /\ lastRet' = "raised" /\ lastExc' = ConfigError
            /\ timeout_seconds' = timeout_seconds]_vars

\* C6: the poll() that first observes completion (it sets the
\* callbacks-fired flag) calls every then-callback, in registration order,
\* whichever of them raise; it raises the exception of the first registered
\* callback that raised, and returns true only when none raised.
C6_ThenIsolation ==
    [][lastOp' \in PollOps /\ ~triggered /\ triggered'
       /\ ~InnerSawTrue(inner') =>
          LET t == Of(trace', "then")
              first == FirstRaise(t) IN
          /\ Len(t) = Len(then_callbacks)
          /\ \A i \in 1..Len(t) : t[i][2] = i
          /\ IF first = 0
             THEN lastRet' = "True" /\ lastExc' = NoExc
             ELSE lastRet' = "raised" /\ lastExc' = t[first]]_vars

\* what C7 says a poll() has called when a during-callback raised in it:
\* the during-callbacks up to that one and nothing else
AbortedInDuring ==
    /\ trace = [i \in 1..lastExc[2] |->
                  IF i < lastExc[2] THEN <<"during", i, "ok">> ELSE lastExc]
    /\ lastRet = "raised"
    /\ ~entryFinished

\* the call began with the first during-callback
StartsAtFirstDuring(tr) == tr # <<>> /\ tr[1][1] = "during" /\ tr[1][2] = 1

\* C7 as stated: when a during-callback raises in poll(), the call has
\* invoked the during-callbacks up to that one and nothing else (no later
\* during-callback, not the predicate, no then-callback), it raises that
\* exception, both flags are still false, and the next poll() starts again
\* with the first during-callback.
C7_Original ==
    /\ [](lastOp \in PollOps /\ lastExc[1] = "during" =>
            AbortedInDuring /\ ~finished /\ ~triggered)
    /\ [][(lastOp \in PollOps) /\ lastExc[1] = "during" /\ lastOp' \in PollOps =>
            StartsAtFirstDuring(trace')]_vars

\* C7 amended: the call has invoked the during-callbacks up to the raising
\* one and nothing else, and raises that exception.  The call itself
\* leaves both flags as they were when it began, the completed flag false;
\* the flags differ afterwards only when one of the during-callbacks it
\* invoked, the raising one included, has itself called poll(), and the
\* gate is completed afterwards only when the predicate was true in that
\* nested call.  As long as the gate is not completed, the next poll()
\* starts again with the first during-callback.
C7_DuringRaiseAborts ==
    /\ [](lastOp \in PollOps /\ lastExc[1] = "during" =>
            /\ AbortedInDuring
            /\ (~InnerSawTrue(inner) => ~finished))
    /\ [][lastOp' \in PollOps /\ lastExc'[1] = "during" /\ inner' = <<>> =>
            UNCHANGED Flags]_vars
    /\ [][(lastOp \in PollOps) /\ lastExc[1] = "during" /\ ~finished
          /\ lastOp' \in PollOps =>
            StartsAtFirstDuring(trace')]_vars

\* the during-callback called poll(), which completed the gate and fired
\* the then-callback, and then raised
C7_Witness ==
    /\ lastOp = "poll" /\ lastExc = <<"during", 1, "Exception">>
    /\ Len(during_callbacks) = 1 /\ Len(then_callbacks) = 1
    /\ InnerSawTrue(inner) /\ finished /\ triggered
    /\ thenCount = <<1>>

\* wait() has ended through its "except TimeoutExpired" clause
TimedOut == lastOp = "wait" /\ pc = "idle" /\ Of(trace, "except") # <<>>

\* what the poll() of the last round of a wait() raised, read off what it
\* called: the exception of a during-callback or of the predicate, or of
\* the then-callbacks the first one unless a later one ended the pass
PollRaised ==
    LET raised == Raising(SelectSeq(trace, LAMBDA e :
                              e[1] \in {"during", "pred", "then"})) IN
    IF raised = <<>> THEN NoExc
    ELSE IF raised[Len(raised)][3] = "KeyboardInterrupt"
         THEN raised[Len(raised)] ELSE raised[1]

\* the exception that came out of waiting.wait's round: the one of poll()
\* unless waiting.wait caught it as expected, else the one of on_poll
LeftLoop ==
    IF PollRaised # NoExc /\ Of(trace, "expected") = <<>> THEN PollRaised
    ELSE IF Raising(Of(trace, "on_poll")) # <<>>
         THEN Raising(Of(trace, "on_poll"))[1] ELSE NoExc

\* the TimeoutExpired that clause caught: the one that came out of the
\* round, or else the one waiting.wait raised for the deadline
CaughtTimeout == IF LeftLoop = NoExc THEN LoopTimeout ELSE LeftLoop

NoTimeoutCallbackOutsideTimeout ==
    /\ lastOp = "wait" /\ lastRet \in {"None", "pending"} =>
          Of(trace, "timeout") = <<>> /\ Of(trace, "hook") = <<>>
    /\ lastOp \in PollOps =>
          Of(trace, "timeout") = <<>> /\ Of(trace, "hook") = <<>>

\* the hook was consulted once, last of all, and wait() raised what came
\* of it: the timeout error it caught when the hook returned None, the
\* hook's exception when it returned or raised one, the TypeError of
\* raising what is no exception
HookThenRaise ==
    LET h == Of(trace, "hook") IN
    /\ Len(h) = 1
    /\ trace[Len(trace)] = h[1]
    /\ lastRet = "raised"
    /\ lastExc = IF h[1][3] = "None" THEN CaughtTimeout
                 ELSE IF h[1][3] = "NotAnException" THEN BadRaise
                 ELSE h[1]

\* C8 as stated: a wait() that times out calls every on_timeout callback
\* once, in registration order, then consults the hook once and raises the
\* original timeout error if the hook returned nothing, the translated
\* error otherwise; no on_timeout callback is called by a wait() that
\* returns normally or by poll().
C8_Original ==
    /\ TimedOut /\ CaughtTimeout = LoopTimeout =>
          LET o == Of(trace, "timeout") IN
          /\ Len(o) = Len(timeout_callbacks)
          /\ \A i \in 1..Len(o) : o[i][2] = i
          /\ HookThenRaise
    /\ NoTimeoutCallbackOutsideTimeout

\* C8 amended: a wait() that times out calls the on_timeout callbacks once
\* each in registration order, up to and including the first one that
\* raises.  When none raises, all have been called, the hook is then
\* consulted once and wait() raises the original timeout error if the hook
\* returned nothing, the translated error if it returned one, and the
\* hook's own failure if it raised or returned what cannot be raised; when
\* a callback raises, the hook is not consulted and wait() raises that
\* callback's exception.  No
\* on_timeout callback is called by a wait() that returns normally or by
\* poll().
C8_TimeoutHandling ==
    /\ TimedOut =>
          LET o == Of(trace, "timeout")
              first == FirstRaise(o) IN
          /\ \A i \in 1..Len(o) : o[i][2] = i
          /\ IF first = 0
             THEN Len(o) = Len(timeout_callbacks) /\ HookThenRaise
             ELSE /\ Len(o) = first
                  /\ Of(trace, "hook") = <<>>
                  /\ lastRet = "raised" /\ lastExc = o[first]
    /\ NoTimeoutCallbackOutsideTimeout

\* the deadline passed, two on_timeout callbacks returned and the hook
\* translated the error
C8_Witness ==
    /\ TimedOut /\ lastExc = Translated
    /\ Of(trace, "timeout") = << <<"timeout", 1, "ok">>,
                                 <<"timeout", 2, "ok">> >>
    /\ CaughtTimeout = LoopTimeout

\* the keyword arguments of a wait() that waiting.wait accepts and whose
\* loop runs with the options opts
AcceptedWith(opts) ==
    {[expected_exceptions |-> opts.expected_exceptions,
      on_poll |-> opts.on_poll, sleep_seconds |-> s, other |-> "none"] :
        s \in SleepValues}

\* C9: wait() hands waiting.wait its timeout argument when one is given (0
\* included), else the stored default, which is the last value given to
\* set_default_timeout, else no timeout.
C9_TimeoutResolution ==
    [][\A t \in TimeoutValues :
        /\ pc = "idle" /\ pc' = "waiting"
           /\ (\E kw \in AcceptedWith(loop_kwargs') : WaitBegin(t, kw)) =>
              loop_timeout' = IF t # None THEN t
                              ELSE IF timeout_seconds # None
                                   THEN timeout_seconds ELSE None
        /\ lastOp' = "set_default_timeout" /\ SetDefaultTimeout(t) =>
              timeout_seconds' = t]_vars

\* wait(0) on a gate whose default timeout is positive waits with 0
C9_Witness ==
    /\ pc = "waiting" /\ lastRet = "pending"
    /\ timeout_seconds = PositiveTimeout /\ loop_timeout = 0

\* what a call has invoked of the gate: its callbacks, the predicate, the
\* hook
GateCalls(tr) ==
    SelectSeq(tr, LAMBDA e :
                  e[1] \in {"during", "pred", "then", "timeout", "hook"})

\* wait() has returned normally on a finished gate whose then-callbacks have
\* each run once
ReturnedNormally ==
    /\ pc = "idle" /\ lastOp = "wait" /\ lastRet = "None" /\ lastExc = NoExc
    /\ finished
    /\ \A i \in 1..Len(then_callbacks) : thenCount[i] = 1

\* the deadline of the running wait() cannot pass before the predicate is
\* true: a timeout of 0 passes right after a first poll() that returns false
DeadlineHolds == loop_timeout # 0 \/ polls_left = 0 \/ finished

\* C10: when the predicate turns true after finitely many polls, no
\* callback raises and waiting.wait keeps polling without its deadline
\* passing, a wait() that is running eventually returns normally, with the
\* gate finished and every then-callback called exactly once; a wait()
\* started on the finished gate returns normally too and calls no callback.
\* The wait() meant is one whose keywords waiting.wait accepts: a call it
\* rejects raises TypeError and never polls.
C10_WaitReturns ==
    /\ (pc = "waiting" /\ DeadlineHolds) ~> ReturnedNormally
    /\ (pc = "waiting" /\ entryFinished) ~>
            (ReturnedNormally /\ entryFinished /\ GateCalls(trace) = <<>>)
    /\ [](lastOp = "wait" /\ entryFinished /\ lastExc # CallError =>
            /\ GateCalls(trace) = <<>> /\ lastExc = NoExc
            /\ \A i \in 1..Len(then_callbacks) : thenCount[i] = 1)

\* a second wait() has returned on a gate with a then-callback and a
\* during-callback
C10_Witness ==
    /\ ReturnedNormally /\ entryFinished /\ GateCalls(trace) = <<>>
    /\ Len(then_callbacks) > 0 /\ Len(during_callbacks) > 0

\* a call of poll() or wait() that is over has ended normally or with an
\* exception, never both
ReturnedOrRaised ==
    /\ lastRet \in (IF lastOp \in PollOps THEN {"True", "False", "raised"}
                    ELSE {"None", "raised"})
    /\ (lastRet = "raised") <=> (lastExc # NoExc)

\* what it raised is an exception of the predicate or of a callback it
\* called, the timeout error or the translated error
RaisedAsListed ==
    lastExc # NoExc =>
       \/ \E j \in 1..Len(Raising(trace)) : Raising(trace)[j] = lastExc
       \/ /\ lastExc \in {LoopTimeout, Translated}
          /\ Of(trace, "except") # <<>>

\* a wait() whose call of waiting.wait was rejected: nothing was polled
RejectedCall ==
    /\ lastOp = "wait" /\ lastExc = CallError
    /\ trace = <<>> /\ ~swallowed

\* a wait() that timed out and whose hook failed: it raised, or returned
\* what cannot be raised
HookFailed ==
    /\ TimedOut /\ HookThenRaise
    /\ lastExc[3] \notin {"TimeoutExpired", "Translated"} \/ lastExc[1] = "hook"
    /\ lastExc # Translated

\* C11 as stated: no failure is swallowed.  A poll() or wait() that is over
\* has ended one way, and a call in which the predicate or a callback
\* raised, or the deadline passed, has raised.
C11_Original ==
    lastOp \in PollOps \cup {"wait"} /\ pc = "idle" =>
        /\ ReturnedOrRaised /\ RaisedAsListed
        /\ \/ Raising(trace) # <<>>
           \/ Of(trace, "except") # <<>>
           \/ swallowed
           => lastRet = "raised"

\* C11 amended: a poll() or wait() that is over has ended normally or with
\* an exception; the exception is one of those the claim lists or, for a
\* wait() whose keywords waiting.wait rejects, the TypeError of that call,
\* raised before anything is polled, or, for a wait() that timed out, the
\* failure of the hook (it raised, or returned what cannot be raised).  A
\* call has raised when the deadline
\* passed in it or when an exception of the predicate or of a callback
\* reached it and, in a wait(), came out of the wait loop.  The wait loop
\* drops an exception of poll() only when wait() was called with
\* expected_exceptions and the exception is an instance of one of these
\* classes (a KeyboardInterrupt too, if they cover it): that round counts
\* as a poll() that returned false, and the wait() goes on and may return
\* normally.
C11_NoSilentFailure ==
    /\ [](lastOp \in PollOps \cup {"wait"} =>
            LET dropped == Of(trace, "expected") IN
            /\ lastOp \in PollOps => dropped = <<>> /\ ~swallowed
            /\ dropped # <<>> =>
                  /\ swallowed /\ Len(dropped) = 1
                  /\ dropped[1][3] = PollRaised[3]
            /\ IF pc = "waiting"
               THEN /\ lastRet = "pending" /\ lastExc = NoExc
                    /\ LeftLoop = NoExc /\ Of(trace, "except") = <<>>
                    /\ swallowed => loop_kwargs.expected_exceptions # {}
               ELSE /\ ReturnedOrRaised
                    /\ RaisedAsListed \/ RejectedCall \/ HookFailed
                    /\ LeftLoop # NoExc \/ Of(trace, "except") # <<>> =>
                          lastRet = "raised"
                    /\ Raising(trace) # <<>> /\ lastRet # "raised" =>
                          dropped # <<>>)
    /\ [][~swallowed /\ swallowed' =>
            /\ pc = "waiting"
            /\ \E k \in 1..Len(trace') :
                  /\ trace'[k][1] = "expected"
                  /\ trace'[k][3] \in loop_kwargs.expected_exceptions]_vars

\* a wait() called with expected_exceptions has returned normally after
\* the wait loop dropped an exception in an earlier round, and in its last
\* round a during-callback and the predicate were called
C11_Witness ==
    /\ lastOp = "wait" /\ pc = "idle" /\ lastRet = "None" /\ swallowed
    /\ Of(trace, "expected") = <<>>
    /\ trace = << <<"during", 1, "ok">>, <<"pred", 0, "True">> >>

\* C13: when an on_timeout callback raises while wait() handles a timeout,
\* the on_timeout callbacks registered after it are not called, the hook is
\* not consulted, and wait() raises the callback's exception, not the
\* timeout error and not a translated one.
C13_TimeoutCallbackRaises ==
    TimedOut /\ Raising(Of(trace, "timeout")) # <<>> =>
        LET o == Of(trace, "timeout")
            bad == Raising(o)[1] IN
        /\ o[Len(o)] = bad /\ trace[Len(trace)] = bad
        /\ Len(Raising(o)) = 1
        /\ \A i \in 1..Len(timeout_callbacks) :
              Calls(trace, "timeout", i) = IF i <= bad[2] THEN 1 ELSE 0
        /\ Of(trace, "hook") = <<>>
        /\ lastRet = "raised" /\ lastExc = bad
        /\ lastExc # CaughtTimeout /\ lastExc # Translated

\* the deadline passed and the first of two on_timeout callbacks raised
\* TimeoutExpired itself
C13_Witness ==
    /\ TimedOut /\ Len(timeout_callbacks) = 2
    /\ CaughtTimeout = LoopTimeout
    /\ lastExc = <<"timeout", 1, "TimeoutExpired">>

\* C14: an exception that leaves the wait loop and is not a timeout (that
\* of the predicate, of a during-callback or of a then-callback, when
\* waiting.wait was not told to expect it; that of on_poll) is what wait()
\* raises, unchanged; no on_timeout callback is called and the hook is not
\* consulted.  So it is with the TypeError of a call that waiting.wait
\* rejects, which leaves wait() before the loop has polled.
C14_OtherExceptionsPropagate ==
    /\ lastOp = "wait" /\ LeftLoop # NoExc /\ LeftLoop[3] # "TimeoutExpired" =>
          /\ pc = "idle" /\ lastRet = "raised" /\ lastExc = LeftLoop
          /\ Of(trace, "except") = <<>>
          /\ Of(trace, "timeout") = <<>>
          /\ Of(trace, "hook") = <<>>
    /\ lastOp = "wait" /\ pc = "idle" /\ LeftLoop = NoExc
       /\ Of(trace, "except") = <<>> /\ lastRet = "raised" =>
          RejectedCall

\* a then-callback raised an Exception in a wait() on a gate that has an
\* on_timeout callback
C14_Witness ==
    /\ lastOp = "wait" /\ lastExc = <<"then", 1, "Exception">>
    /\ Len(timeout_callbacks) > 0

\* the order of the calls of one poll() that called tr, on a gate that is
\* completed (fin) or not when the call is over
InPollOrder(tr, fin) ==
    LET d == Of(tr, "during")
        p == Of(tr, "pred")
        t == Of(tr, "then")
        inPoll == SelectSeq(tr, LAMBDA e :
                                e[1] \in {"during", "pred", "then"}) IN
    /\ inPoll = d \o p \o t
    /\ \A k \in 1..Len(d) : d[k][2] = k
    /\ \A k \in 1..Len(t) : t[k][2] = k
    /\ Len(p) <= 1
    /\ p # <<>> => /\ Len(d) = Len(during_callbacks)
                   /\ \A k \in 1..Len(d) : d[k][3] = "ok"
    /\ t # <<>> => p = << <<"pred", 0, "True">> >> /\ fin

\* C15: the order of one poll(), also of one that a during-callback makes:
\* the callbacks of a registry are called in the order of their
\* registration; the predicate is evaluated only after every
\* during-callback has been called; then-callbacks are called only after
\* the predicate, in a call that found the gate not completed and whose
\* predicate made it completed.
C15_PollOrder ==
    /\ [](lastOp \in PollOps \cup {"wait"} =>
            /\ InPollOrder(trace, finished)
            /\ InPollOrder(inner, TRUE)
            /\ Of(trace, "then") # <<>> \/ Of(inner, "then") # <<>> =>
                  ~entryFinished)
    /\ [][Of(trace', "then") # <<>> /\ trace' # trace =>
            ~finished /\ finished']_vars

\* a poll() whose during-callback called poll(): that call invoked the
\* during-callback, the predicate and the then-callback, and the outer call
\* went on to the predicate
C15_Witness ==
    /\ lastOp = "poll"
    /\ inner = << <<"during", 1, "ok">>, <<"pred", 0, "True">>,
                  <<"then", 1, "ok">> >>
    /\ trace = << <<"during", 1, "ok">>, <<"pred", 0, "True">> >>

\* what a call leaves alone once a then-callback has raised
RejectedOrRead ==
    /\ lastOp' \in PollOps =>
          lastRet' = "True" /\ lastExc' = NoExc /\ trace' = <<>>
    /\ lastOp' = "wait" =>
          \A k \in 1..Len(trace') :
             trace'[k][1] \notin {"during", "pred", "then"}
    /\ lastOp' \in {"then", "during", "on_timeout"} =>
          lastRet' = "raised" /\ lastExc' = ConfigError
    /\ thenCount' = thenCount
    /\ Registries' = Registries
    /\ Flags' = Flags

\* C16: a poll() that raises the exception of a then-callback leaves the
\* gate completed, with its callbacks fired; every later poll() returns true
\* without raising and without calling a callback or the predicate, and
\* every later registration is rejected with a configuration error.
C16_AfterThenRaise ==
    /\ [](lastOp \in PollOps /\ lastExc[1] = "then" =>
             finished /\ triggered /\ lastRet = "raised")
    /\ [](thenFailed => finished /\ triggered)
    /\ [][thenFailed => RejectedOrRead]_vars

\* C17: seen from a single thread, between two operations the callbacks-fired
\* flag equals the completed flag.
C17_FlagsAgree == triggered = finished

\* C18: on_timeout callbacks are called only on a gate that is not finished,
\* also when the timeout error came out of a callback or the predicate.
C18_TimeoutCallbacksOnlyUnfinished ==
    Of(trace, "timeout") # <<>> => ~finished

\* C12: with cooperative tasks calling poll() on one gate and switching
\* inside during-callbacks, the predicate and then-callbacks, every
\* then-callback is invoked at most once in total.
C12_ThenOnceAcrossTasks ==
    \A i \in 1..Len(thenCount) : thenCount[i] <= 1

\* one task is inside the then-pass while the other one, which entered
\* poll() before the gate completed, has seen the predicate true and
\* returned without firing anything
C12_Witness ==
    /\ tasks[1].pos = "then"
    /\ tasks[2].pos = "done" /\ tasks[2].saw = "True" /\ tasks[2].ret = "True"
    /\ thenCount = <<1>>

\* C19: under cooperative interleaving is_finished() never goes from true
\* back to false, and the gate is never callbacks-fired but not completed
\* (a state that accepts registrations again).
C19_MonotonicUnderInterleaving ==
    /\ [][finished => finished']_vars
    /\ [](~(triggered /\ ~finished))

\* task t returns true from poll() or normally from wait() in this step
CoopReturnsTrue(t) ==
    /\ tasks'[t] # tasks[t]
    /\ tasks'[t].pos = "done"
    /\ tasks'[t].ret \in {"True", "None"}

\* some task is inside the pass over the then-callbacks
InThenPass == \E u \in Tasks : tasks[u].pos = "then"

\* C20, as claimed: no poll() returns true and no wait() returns normally
\* while the task that fires the then-callbacks is still inside its pass.
C20_Original ==
    [][\A t \in Tasks : CoopReturnsTrue(t) => ~InThenPass']_vars

\* C20, amended: a poll() returns true and a wait() returns normally only
\* after the then-pass has begun (the callbacks-fired flag is set), and the
\* task that fires the then-callbacks only after every registered
\* then-callback has been invoked and none is left running in it; another
\* task may return while that pass is still suspended.
C20_TrueMeansPassBegun ==
    [][\A t \in Tasks : CoopReturnsTrue(t) =>
          /\ triggered'
          /\ tasks[t].pos = "then" =>
                /\ tasks[t].i = Len(then_callbacks)
                /\ \A i \in 1..Len(thenCount) : thenCount'[i] >= 1]_vars

\* a wait() has returned in one task while the other is still inside the
\* first then-callback
C20_Witness ==
    /\ tasks[1].pos = "then" /\ tasks[1].i = 1
    /\ tasks[2].pos = "done" /\ tasks[2].op = "wait" /\ tasks[2].ret = "None"
====
